---- MODULE Spec2Model ----
(***************************************************************************)
(* The Fragmentation capability of rosbridge_library                       *)
(* (capabilities/fragmentation.py): fragment(), the generator              *)
(* _fragment_generator(), the planner _determine_n_fragments() and the     *)
(* frame builder _create_fragment().                                       *)
(*                                                                         *)
(* Text is a sequence of character codes (ASCII).  A frame is the dict     *)
(* _create_fragment() builds; its length is len(str(frame)), the measure   *)
(* the code itself uses (Python 2 repr of every value).                    *)
(***************************************************************************)
EXTENDS Integers, Sequences, FiniteSets, TLC

VARIABLES
    fragmentation_seed, \* Fragmentation.fragmentation_seed
    pc,                 \* where the current fragment() call / its generator is
    message,            \* fragment(): the message dict being fragmented
    size,               \* fragment(): fragment_size, the generator's size
    mid,                \* fragment(): mid after id assignment
    result,             \* what fragment() returned to its caller
    call_log,           \* levels passed to protocol.log during this call
    header_size,        \* generator local, then the planner's own copy
    msg_len,            \* planner local
    total,              \* planner local, then the generator's total
    A,                  \* planner local list
    msg_length,         \* generator local: the per-fragment budget
    i,                  \* generator local: cursor into msg
    n,                  \* generator local: loop variable of range(total)
    fragment_size,      \* generator local: payload capacity of frame n
    out,                \* frames the generator has yielded so far
    auto_calls,         \* history: the calls that were given no explicit id
    t_pc,               \* per thread: position inside lines 66-68
    t_mid,              \* per thread: local mid
    t_tmp,              \* per thread: value loaded for the increment
    t_ids               \* per thread: ids its calls were assigned

vars == <<fragmentation_seed, pc, message, size, mid, result, call_log,
          header_size, msg_len, total, A, msg_length, i, n, fragment_size,
          out, auto_calls, t_pc, t_mid, t_tmp, t_ids>>

seqVars == <<pc, message, size, mid, result, call_log, header_size, msg_len,
             total, A, msg_length, i, n, fragment_size, out, auto_calls>>

threadVars == <<t_pc, t_mid, t_tmp, t_ids>>

plannerVars == <<header_size, msg_len, total, A>>

generatorVars == <<msg_length, i, n, fragment_size, out>>

-----------------------------------------------------------------------------
(* Bounds of the model. *)

\* The planner's search is followed up to this total; a search that reaches
\* it with its loop test still true is one that goes on.
MaxTotal == 1001

\* Calls without an explicit id are taken while the seed is below this.
MaxSeed == 2

\* Calls each thread makes in the concurrent specification.
MaxThreadCalls == 2

\* mid is None
None == -1

\* Explicit ids callers pass (a two-digit one: its header is one longer).
ExplicitIds == {10}

\* Size caps passed as fragment_size.  With a one-digit id the minimal
\* header is 73 characters: 72 is below it, 74 one above, 78 five above
\* (the cap at which a message of 1109 characters needs 1000 fragments).
Sizes == {72, 74, 78, 83, 150}

\* Character codes.
Backslash == 92
SingleQuote == 39
DoubleQuote == 34
Zero == 48

\* Lengths of the serialized messages.
PlainLens == {0, 72, 78, 79, 100, 150, 151, 400, 1109}
EscapedLens == {100}

Messages ==
    {[len |-> L, kind |-> "plain"] : L \in PlainLens}
    \cup {[len |-> L, kind |-> k] : L \in EscapedLens, k \in {"backslash", "quotes"}}
    \cup {[len |-> 0, kind |-> "unserializable"]}

Threads == {1, 2}

-----------------------------------------------------------------------------
(* Pure helpers. *)

Max(a, b) == IF a > b THEN a ELSE b
Min(a, b) == IF a < b THEN a ELSE b

\* len(str(k)) for an int k >= 0
RECURSIVE Digits(_)
Digits(k) == IF k < 10 THEN 1 ELSE 1 + Digits(k \div 10)

\* math.floor(math.log(k)/math.log(10)) in IEEE double arithmetic, for
\* 1 <= k < 10^6: log(1000)/log(10) evaluates to 2.9999999999999996, so the
\* floor is 2 there; everywhere else in the range it is the digit count
\* minus one.
FloorLog10(k) == IF k = 1000 THEN 2 ELSE Digits(k) - 1

\* the text protocol.serialize returns for a message, one character code per
\* position; which characters it holds depends on the message alone
CharAt(m, k) ==
    CASE m.kind = "backslash" /\ k = 5 -> Backslash
      [] m.kind = "quotes" /\ k = 3 -> DoubleQuote
      [] m.kind = "quotes" /\ k = 6 -> SingleQuote
      [] OTHER -> 97 + ((k - 1) % 26)

\* protocol.serialize(message, mid): a text, or None (ok = FALSE)
serialize(m, id) ==
    IF m.kind = "unserializable"
    THEN [ok |-> FALSE, text |-> <<>>]
    ELSE [ok |-> TRUE, text |-> [k \in 1..m.len |-> CharAt(m, k)]]

\* number of positions of s holding character c
Count(s, c) == Cardinality({k \in 1..Len(s) : s[k] = c})

\* len(repr(s)) of a Python 2 str: the quotes, one character per character,
\* a backslash before every backslash, and before every single quote when
\* the string holds both kinds of quote (otherwise repr picks the quote
\* character the string does not hold)
StrReprLen(s) ==
    2 + Len(s) + Count(s, Backslash)
      + (IF Count(s, SingleQuote) > 0 /\ Count(s, DoubleQuote) > 0
         THEN Count(s, SingleQuote) ELSE 0)

\* s[a:b] for a Python sequence (0-based, negative indices count from the end)
PySlice(s, a, b) ==
    LET norm(x) == IF x < 0 THEN Max(x + Len(s), 0) ELSE Min(x, Len(s))
        lo == norm(a)
        hi == norm(b)
    IN  IF lo >= hi THEN <<>> ELSE SubSeq(s, lo + 1, hi)

\* "".join(["0" for j in xrange(k)])
Fill(k) == [j \in 1..Max(k, 0) |-> Zero]

-----------------------------------------------------------------------------
(* _create_fragment and the length of a frame. *)

\* _create_fragment with num and total taking each other's place
_create_fragment_swapped(fragment, num, tot, id, fill) ==
    [op |-> "fragment", id |-> id, data |-> fragment, num |-> tot,
     total |-> num, fill |-> fill]

\* _create_fragment(fragment, num, total, mid, fill)
_create_fragment(fragment, num, tot, id, fill) ==
    [op |-> "fragment", id |-> id, data |-> fragment, num |-> num,
     total |-> tot, fill |-> fill]

\* len(str(frame)): the braces, keys and separators of the dict's repr, the
\* repr of the constant op, and the repr of the five values that vary
FrameLen(f) ==
    Len("{'op': , 'id': , 'data': , 'num': , 'total': , 'fill': }")
      + Len("'fragment'")
      + Digits(f.id) + StrReprLen(f.data) + Digits(f.num) + Digits(f.total)
      + StrReprLen(f.fill)

\* len(str(self._create_fragment("", num, total, mid, "")))
HeaderLen(id, num, tot) == FrameLen(_create_fragment(<<>>, num, tot, id, <<>>))

-----------------------------------------------------------------------------
(* fragment(): lines 47-86. *)

\* the seed is written back unchanged
NextSeed_stuck(seed) == seed

\* self.fragmentation_seed + 1
NextSeed(seed) == seed + 1

\* lines 66-68: the id the call works with, and the seed it leaves
AssignId(explicit, seed) ==
    IF explicit = None
    THEN [mid |-> seed, seed |-> NextSeed(seed)]
    ELSE [mid |-> explicit, seed |-> seed]

\* fragment() without the test of line 72
FragmentResult_noNoneCheck(m, ser, cap) ==
    IF Len(ser.text) <= cap
    THEN [kind |-> "list", items |-> <<m>>]
    ELSE [kind |-> "generator", items |-> <<>>]

\* fragment() with < for the <= of line 76
FragmentResult_strictLess(m, ser, cap) ==
    IF ~ser.ok
    THEN [kind |-> "list", items |-> <<>>]
    ELSE IF Len(ser.text) < cap
         THEN [kind |-> "list", items |-> <<m>>]
         ELSE [kind |-> "generator", items |-> <<>>]

\* lines 72-86: what fragment() returns, given the serializer's answer
FragmentResult(m, ser, cap) ==
    IF ~ser.ok
    THEN [kind |-> "list", items |-> <<>>]
    ELSE IF Len(ser.text) <= cap
         THEN [kind |-> "list", items |-> <<m>>]
         ELSE [kind |-> "generator", items |-> <<>>]

\* no call is in progress: nothing was called yet, the last call returned a
\* list, or its generator is exhausted
Idle == pc \in {"idle", "returned", "exhausted"}

\* the generator's msg: the serialized message
msg == serialize(message, mid).text

Fragment(m, cap, explicit) ==
    /\ Idle
    /\ explicit = None => fragmentation_seed < MaxSeed
    /\ LET a == AssignId(explicit, fragmentation_seed)
           r == FragmentResult(m, serialize(m, a.mid), cap)
       IN  /\ fragmentation_seed' = a.seed
           /\ mid' = a.mid
           /\ auto_calls' =
                IF explicit = None
                THEN Append(auto_calls, [mid |-> a.mid,
                                         before |-> fragmentation_seed,
                                         after |-> a.seed])
                ELSE auto_calls
           /\ result' = r
           /\ call_log' = IF r.kind = "generator" THEN <<"info">> ELSE <<>>
           /\ pc' = IF r.kind = "generator" THEN "created" ELSE "returned"
    /\ message' = m
    /\ size' = cap
    /\ header_size' = 0
    /\ msg_len' = 0
    /\ total' = 0
    /\ A' = <<>>
    /\ msg_length' = 0
    /\ i' = 0
    /\ n' = 0
    /\ fragment_size' = 0
    /\ out' = <<>>
    /\ UNCHANGED threadVars

-----------------------------------------------------------------------------
(* _determine_n_fragments(): lines 110-127, run by the generator's first   *)
(* next().  The except clause of lines 95-97 has no action: nothing in the *)
(* planner raises RuntimeError.                                            *)

\* the planner's view of the digit growth from total to total + 1
HeaderGrows(temp, tot) == FloorLog10(temp) > FloorLog10(tot)

\* the loop test of line 116
LoopTest == A[Len(A)] \div total + 1 > size

\* lines 90-94 and 112-114: the generator starts and enters the planner
GenStart ==
    /\ pc = "created"
    /\ LET h == HeaderLen(mid, 0, 0)
       IN  /\ header_size' = h
           /\ A' = <<Len(msg) + h>>
           /\ msg_len' = Len(msg) + h
    /\ total' = 1
    /\ pc' = "plan"
    /\ UNCHANGED <<fragmentation_seed, message, size, mid, result, call_log,
                   auto_calls, generatorVars, threadVars>>

\* lines 116-125: one pass through the while loop
PlanIter ==
    /\ pc = "plan"
    /\ LoopTest
    /\ total < MaxTotal
    /\ LET temp == total + 1
           grows == HeaderGrows(temp, total)
           len1 == msg_len + header_size
           len2 == IF grows THEN len1 + temp ELSE len1
       IN  /\ msg_len' = len2
           /\ header_size' = IF grows THEN header_size + 2 ELSE header_size
           /\ total' = temp
           /\ A' = Append(A, len2)
    /\ UNCHANGED <<fragmentation_seed, pc, message, size, mid, result,
                   call_log, auto_calls, generatorVars, threadVars>>

\* line 127, then lines 94 and 98-99: the planner returns to the generator
PlanReturn ==
    /\ pc = "plan"
    /\ ~LoopTest
    /\ LET budget == msg_len \div total + 1
       IN  /\ msg_length' = budget
           /\ fragment_size' = budget - HeaderLen(mid, 0, total)
    /\ i' = 0
    /\ n' = 0
    /\ pc' = "gen"
    /\ UNCHANGED <<fragmentation_seed, message, size, mid, result, call_log,
                   auto_calls, plannerVars, out, threadVars>>

-----------------------------------------------------------------------------
(* _fragment_generator(): the for loop of lines 100-108. *)

\* lines 102-105
FillLength(cursor, capacity, len, cap, budget) ==
    IF cursor + capacity > len
    THEN cap - budget + (cursor + capacity - len)
    ELSE cap - budget

\* lines 101-108: one frame is yielded, the cursor and capacity advance
GenYield ==
    /\ pc = "gen"
    /\ n < total
    /\ LET fragment == PySlice(msg, i, Min(i + fragment_size, Len(msg)))
           fill_length == FillLength(i, fragment_size, Len(msg), size, msg_length)
       IN  out' = Append(out, _create_fragment(fragment, n, total, mid,
                                               Fill(fill_length)))
    /\ i' = i + fragment_size
    /\ fragment_size' = msg_length - HeaderLen(mid, n + 1, total)
    /\ n' = n + 1
    /\ UNCHANGED <<fragmentation_seed, pc, message, size, mid, result,
                   call_log, auto_calls, plannerVars, msg_length, threadVars>>

\* range(total) is used up: the generator is exhausted
GenExhaust ==
    /\ pc = "gen"
    /\ n = total
    /\ pc' = "exhausted"
    /\ UNCHANGED <<fragmentation_seed, message, size, mid, result, call_log,
                   auto_calls, plannerVars, generatorVars, threadVars>>

-----------------------------------------------------------------------------
(* Lines 66-68 run by two threads on one instance, one bytecode-level      *)
(* access of fragmentation_seed at a time.                                 *)

\* line 67: mid = self.fragmentation_seed
T_LoadMid(t) ==
    /\ t_pc[t] = "start"
    /\ Len(t_ids[t]) < MaxThreadCalls
    /\ t_mid' = [t_mid EXCEPT ![t] = fragmentation_seed]
    /\ t_pc' = [t_pc EXCEPT ![t] = "loaded"]
    /\ UNCHANGED <<fragmentation_seed, t_tmp, t_ids, seqVars>>

\* line 68, right-hand side: self.fragmentation_seed is read
T_LoadSeed(t) ==
    /\ t_pc[t] = "loaded"
    /\ t_tmp' = [t_tmp EXCEPT ![t] = fragmentation_seed]
    /\ t_pc' = [t_pc EXCEPT ![t] = "adding"]
    /\ UNCHANGED <<fragmentation_seed, t_mid, t_ids, seqVars>>

\* line 68, the store; the call goes on with mid
T_StoreSeed(t) ==
    /\ t_pc[t] = "adding"
    /\ fragmentation_seed' = NextSeed(t_tmp[t])
    /\ t_ids' = [t_ids EXCEPT ![t] = Append(@, t_mid[t])]
    /\ t_pc' = [t_pc EXCEPT ![t] = "start"]
    /\ UNCHANGED <<t_mid, t_tmp, seqVars>>

-----------------------------------------------------------------------------
(* Specifications. *)

Init ==
    /\ fragmentation_seed = 0
    /\ pc = "idle"
    /\ message = [len |-> 0, kind |-> "plain"]
    /\ size = 0
    /\ mid = None
    /\ result = [kind |-> "list", items |-> <<>>]
    /\ call_log = <<>>
    /\ header_size = 0
    /\ msg_len = 0
    /\ total = 0
    /\ A = <<>>
    /\ msg_length = 0
    /\ i = 0
    /\ n = 0
    /\ fragment_size = 0
    /\ out = <<>>
    /\ auto_calls = <<>>
    /\ t_pc = [t \in Threads |-> "start"]
    /\ t_mid = [t \in Threads |-> None]
    /\ t_tmp = [t \in Threads |-> 0]
    /\ t_ids = [t \in Threads |-> <<>>]

Call == \E m \in Messages, cap \in Sizes, explicit \in ExplicitIds \cup {None} :
            Fragment(m, cap, explicit)

\* the consumer's next() calls: the generator body runs on
Consume == GenStart \/ PlanIter \/ PlanReturn \/ GenYield \/ GenExhaust

Next == Call \/ GenStart \/ PlanIter \/ PlanReturn \/ GenYield \/ GenExhaust

\* one caller at a time
Spec == Init /\ [][Next]_vars

\* one caller at a time, whose consumer iterates the generator to its end
FairSpec == Spec /\ WF_vars(Consume)

ThreadStep(t) == T_LoadMid(t) \/ T_LoadSeed(t) \/ T_StoreSeed(t)

ConcNext == \E t \in Threads : ThreadStep(t)

\* two threads calling fragment() without an id on the same instance
ConcSpec == Init /\ [][ConcNext]_vars

-----------------------------------------------------------------------------
(* Operators the properties are stated with. *)

Range(s) == {s[k] : k \in 1..Len(s)}

\* the data of the frames whose num is k, joined in the order they came
DataOf(frames, k) ==
    LET numbered == SelectSeq(frames, LAMBDA f : f.num = k)
        RECURSIVE Join(_)
        Join(fs) == IF fs = <<>> THEN <<>> ELSE Head(fs).data \o Join(Tail(fs))
    IN  Join(numbered)

\* the data of the frames numbered lo .. hi, joined in increasing num order
RECURSIVE DataFromTo(_, _, _)
DataFromTo(frames, lo, hi) ==
    IF lo > hi
    THEN <<>>
    ELSE IF lo = hi
         THEN DataOf(frames, lo)
         ELSE LET half == (lo + hi) \div 2
              IN  DataFromTo(frames, lo, half) \o DataFromTo(frames, half + 1, hi)

\* what a receiver reassembles from the frames of one message
Reassembled(frames) == DataFromTo(frames, 0, Len(frames) - 1)

RECURSIVE Pow10(_)
Pow10(c) == IF c = 0 THEN 1 ELSE 10 * Pow10(c - 1)

\* the least int with c decimal digits
ClassLo(c) == IF c = 1 THEN 0 ELSE Pow10(c - 1)

\* how many num values below t have c decimal digits
ClassCount(c, t) == Max(0, Min(t, Pow10(c)) - ClassLo(c))

\* the sum over num in 0 .. t-1 of the real header length of frame num of t
RECURSIVE HeaderSumTo(_, _, _)
HeaderSumTo(id, t, c) ==
    IF c = 0
    THEN 0
    ELSE HeaderSumTo(id, t, c - 1) + ClassCount(c, t) * HeaderLen(id, ClassLo(c), t)

HeaderSum(id, t) == HeaderSumTo(id, t, Digits(t))

\* the header of a frame with empty data, num 0, total 0 and empty fill
MinHeader == HeaderLen(mid, 0, 0)

\* a generator exists for the current call: the message was longer than the cap
Fragmenting == pc \in {"created", "plan", "gen", "exhausted"}

-----------------------------------------------------------------------------
(* Properties. *)

\* C1: once the frame sequence of a fragmented message is exhausted, the
\* data of its frames, joined in increasing num order, is the serialized
\* message.
C1_RoundTrip == pc = "exhausted" => Reassembled(out) = msg

\* The round trip holds whenever the planner did not stop at 1000 fragments.
RoundTripUnlessThousand ==
    pc = "exhausted" /\ total # 1000 => Reassembled(out) = msg

\* C2: every frame yielded has a length exactly equal to the size cap.
C2_ExactCap == \A k \in 1..Len(out) : FrameLen(out[k]) = size

\* Frames of a message whose characters repr leaves alone do fill the cap.
PlainFramesFillCap ==
    message.kind = "plain" => \A k \in 1..Len(out) : FrameLen(out[k]) = size

\* C3: the k-th frame yielded has num k (counting from 0) and carries the
\* total the planner returned; the generator yields one frame per pass and
\* is exhausted after exactly total frames.
C3_Completeness ==
    /\ \A k \in 1..Len(out) : out[k].num = k - 1 /\ out[k].total = total
    /\ pc = "gen" => Len(out) = n /\ n <= total /\ total = Len(A)
    /\ pc = "exhausted" => Len(out) = total /\ total = Len(A)

\* C3 witness: a generator was consumed to exhaustion after more than a
\* hundred frames.
C3_Witness == pc = "exhausted" /\ Len(out) > 100 /\ out[Len(out)].num = total - 1

\* C4: when the generator of a message longer than the cap is started with
\* a cap below the minimal header size, it ends having logged an error and
\* having yielded nothing.
C4_HeaderTooSmall ==
    (pc = "created" /\ size < MinHeader)
        ~> (pc = "exhausted" /\ "error" \in Range(call_log) /\ out = <<>>)

\* C5: a message whose serialized length is at most the cap is returned
\* itself, as the only result; no frame is produced and the planner is not
\* run.
C5_ShortCircuit ==
    (pc # "idle" /\ serialize(message, mid).ok /\ Len(msg) <= size)
        => /\ result = [kind |-> "list", items |-> <<message>>]
           /\ pc = "returned"
           /\ out = <<>>
           /\ A = <<>> /\ total = 0

\* C5 witness: a message exactly as long as the cap was returned unfragmented.
C5_Witness ==
    /\ pc = "returned"
    /\ serialize(message, mid).ok
    /\ Len(msg) = size
    /\ result.items = <<message>>

\* the ids given to calls without an explicit id are pairwise distinct, each
\* is the seed as the call found it, and the seed only grew since
AutoIdsDistinct ==
    /\ \A j, k \in 1..Len(auto_calls) :
           j # k => auto_calls[j].mid # auto_calls[k].mid
    /\ \A k \in 1..Len(auto_calls) :
           /\ auto_calls[k].mid = auto_calls[k].before
           /\ auto_calls[k].after > auto_calls[k].before
           /\ auto_calls[k].after <= fragmentation_seed
           /\ k > 1 => auto_calls[k - 1].after <= auto_calls[k].before

\* C6: calls made one after another without an explicit id get distinct
\* ids, each the seed's value before the call, and the seed never decreases.
C6_IdUniqueness ==
    /\ []AutoIdsDistinct
    /\ [][fragmentation_seed' >= fragmentation_seed]_vars

\* C6 witness: two calls without an id were made, and the current call, made
\* with an explicit id, fragmented its message.
C6_Witness ==
    /\ Len(auto_calls) >= 2
    /\ mid \in ExplicitIds
    /\ pc = "exhausted"

\* C7: when the serializer returns no text, fragment() returns the empty
\* list: no frame, no copy of the message, and the planner is not run.
C7_SerializationFailure ==
    (pc # "idle" /\ ~serialize(message, mid).ok)
        => /\ result = [kind |-> "list", items |-> <<>>]
           /\ pc = "returned"
           /\ out = <<>>
           /\ A = <<>> /\ total = 0

\* C7 witness: a call whose message could not be serialized has returned.
C7_Witness ==
    /\ pc = "returned"
    /\ message.kind = "unserializable"
    /\ result.items = <<>>

\* C8: whenever the cap exceeds the minimal header size, the planner's
\* search loop exits and the planner returns.
C8_PlannerTerminates == (pc = "plan" /\ size > MinHeader) ~> (pc = "gen")

\* With a cap below the minimal header the loop test holds at every total:
\* every pass adds at least the minimal header to the working length, so the
\* share per fragment never drops below it.
NoExitBelowHeader ==
    pc = "plan" /\ size < MinHeader =>
        /\ header_size >= MinHeader
        /\ msg_len >= total * MinHeader
        /\ LoopTest

\* With a cap one above the minimal header and a message of nine characters
\* or more the loop test holds at every total: up to nine fragments the
\* message adds at least one character per fragment, and from the tenth on
\* every pass adds at least the minimal header plus two.
NoExitOneAboveHeader ==
    pc = "plan" /\ size = MinHeader + 1 /\ Len(msg) >= 9 =>
        /\ total >= 10 => header_size >= MinHeader + 2
        /\ msg_len >= total * (MinHeader + 1)
        /\ LoopTest

\* The search reaches the bound MaxTotal only for caps at most four above
\* the minimal header, with messages no total can fit: from ten fragments on
\* the headers average at least two more than the minimal one, from a
\* hundred on at least four.
BoundReachedOnlyWhenNoTotalFits ==
    pc = "plan" /\ total = MaxTotal /\ LoopTest => size - MinHeader <= 4

\* all ids the threads' calls were given
ThreadIds == UNION {Range(t_ids[t]) : t \in Threads}

\* C9: under every interleaving, calls made by two threads without an id
\* get distinct ids and the seed ends as many higher as calls were made.
C9_AtomicIds ==
    /\ \A t \in Threads : \A j, k \in 1..Len(t_ids[t]) :
           j # k => t_ids[t][j] # t_ids[t][k]
    /\ \A t, u \in Threads : t # u => Range(t_ids[t]) \cap Range(t_ids[u]) = {}
    /\ (\A t \in Threads : t_pc[t] = "start")
           => fragmentation_seed = Len(t_ids[1]) + Len(t_ids[2])

\* C10: at every loop test of the planner the working length is the message
\* length plus the real header lengths of frames 0 .. total-1 of total; the
\* budget returned is at most the cap and the payload capacities of all
\* frames together hold the message.
C10_HeaderAccounting ==
    /\ pc = "plan" => A[Len(A)] = Len(msg) + HeaderSum(mid, total)
    /\ pc \in {"gen", "exhausted"} =>
           /\ msg_length <= size
           /\ total * msg_length - HeaderSum(mid, total) >= Len(msg)

\* The accounting is exact at every loop test below 1000 fragments.
AccountingBelowThousand ==
    pc = "plan" /\ total < 1000 =>
        /\ A[Len(A)] = Len(msg) + HeaderSum(mid, total)
        /\ A[Len(A)] = msg_len
        /\ Len(A) = total

====
